---- MODULE Spec2Model ----
(***************************************************************************)
(* A model of src/src/Code.js, the Looker Studio JSON community connector: *)
(* schema discovery (getFields / createFields / getSemanticType), value    *)
(* resolution and projection (getColumnValue / validateValue /            *)
(* getColumns) and the chunked cache (getCachedData / fetchData).         *)
(*                                                                         *)
(* JavaScript strings are sequences of one-character strings, so that the  *)
(* code's replace / split / join / toLowerCase are computed character by   *)
(* character.  A JSON value is a record [t, s, kv]: t is the JavaScript    *)
(* kind, s the text of a scalar, kv the (key, value) pairs of an object or *)
(* an array (an array's keys are its indices in decimal).                  *)
(***************************************************************************)
EXTENDS Integers, Sequences, FiniteSets, TLC

VARIABLES
    \* a content and the answers of getSchema / getData on it
    content, schema, request, rows, probe, dpc,
    \* the user cache, the answer of the last fetchData and what came before it
    store, resp, prev, expired, produced, gets,
    \* two getCachedData calls run store operation by store operation
    pc, loc, fetchedElems, calls

dataVars == <<content, schema, request, rows, probe, dpc>>

seqVars == <<resp, prev, expired, produced, gets>>

concVars == <<pc, loc, fetchedElems, calls>>

vars == <<dataVars, store, seqVars, concVars>>

\* ------------------------------------------------------------ strings

Digits == <<"0", "1", "2", "3", "4", "5", "6", "7", "8", "9">>

UpperLetters ==
    <<"A", "B", "C", "D", "E", "F", "G", "H", "I", "J", "K", "L", "M",
      "N", "O", "P", "Q", "R", "S", "T", "U", "V", "W", "X", "Y", "Z">>

LowerLetters ==
    <<"a", "b", "c", "d", "e", "f", "g", "h", "i", "j", "k", "l", "m",
      "n", "o", "p", "q", "r", "s", "t", "u", "v", "w", "x", "y", "z">>

Range(f) == {f[i] : i \in DOMAIN f}

IsDigit(c) == c \in Range(Digits)

IsLetter(c) == c \in Range(UpperLetters) \cup Range(LowerLetters)

\* [a-zA-Z0-9]
IsAlnum(c) == IsLetter(c) \/ IsDigit(c)

\* \s of a regular expression, as far as the alphabet goes
IsSpace(c) == c \in {" ", "\t", "\n", "\r"}

\* String.prototype.toLowerCase, one character
toLowerCase(c) ==
    IF c \in Range(UpperLetters)
    THEN LowerLetters[CHOOSE i \in DOMAIN UpperLetters : UpperLetters[i] = c]
    ELSE c

\* key.replace(/\s/g, '_').toLowerCase()
normalizeKey(str) ==
    [i \in 1..Len(str) |-> toLowerCase(IF IsSpace(str[i]) THEN "_" ELSE str[i])]

\* str.replace('.', '_'): a string pattern replaces the FIRST occurrence only
replaceFirstDot(str) ==
    IF \E i \in 1..Len(str) : str[i] = "."
    THEN LET p == CHOOSE i \in 1..Len(str) :
                     str[i] = "." /\ \A j \in 1..(i - 1) : str[j] # "."
         IN  [i \in 1..Len(str) |-> IF i = p THEN "_" ELSE str[i]]
    ELSE str

\* str.split(sep) for a one-character separator: "" splits to [""]
RECURSIVE split(_, _)
split(str, sep) ==
    IF \E i \in 1..Len(str) : str[i] = sep
    THEN LET p == CHOOSE i \in 1..Len(str) :
                     str[i] = sep /\ \A j \in 1..(i - 1) : str[j] # sep
         IN  <<SubSeq(str, 1, p - 1)>> \o split(SubSeq(str, p + 1, Len(str)), sep)
    ELSE <<str>>

\* Array.prototype.join(sep), which is also what String(array) does with ','
RECURSIVE join(_, _)
join(strs, sep) ==
    IF Len(strs) = 0 THEN <<>>
    ELSE IF Len(strs) = 1 THEN strs[1]
    ELSE strs[1] \o <<sep>> \o join(Tail(strs), sep)

\* the decimal text of a natural number
RECURSIVE decimal(_)
decimal(n) ==
    IF n < 10 THEN <<Digits[n + 1]>>
    ELSE decimal(n \div 10) \o <<Digits[(n % 10) + 1]>>

\* the value of a text of decimal digits
RECURSIVE digitsValue(_)
digitsValue(str) ==
    IF Len(str) = 0 THEN 0
    ELSE 10 * digitsValue(SubSeq(str, 1, Len(str) - 1))
         + (CHOOSE i \in DOMAIN Digits : Digits[i] = str[Len(str)]) - 1

\* ------------------------------------------------------------ JSON values

JNull == [t |-> "null", s |-> <<>>, kv |-> <<>>]

JUndefined == [t |-> "undefined", s |-> <<>>, kv |-> <<>>]

\* the exception a property access on null or undefined throws
TypeError == [t |-> "TypeError", s |-> <<>>, kv |-> <<>>]

JNum(n) == [t |-> "number", s |-> decimal(n), kv |-> <<>>]

JBool(b) ==
    [t |-> "boolean",
     s |-> IF b THEN <<"t", "r", "u", "e">> ELSE <<"f", "a", "l", "s", "e">>,
     kv |-> <<>>]

JStr(str) == [t |-> "string", s |-> str, kv |-> <<>>]

\* '' in the code
EmptyString == JStr(<<>>)

JObj(pairs) == [t |-> "object", s |-> <<>>, kv |-> pairs]

JArr(items) ==
    [t |-> "array", s |-> <<>>,
     kv |-> [i \in 1..Len(items) |-> <<decimal(i - 1), items[i]>>]]

\* typeof value === 'object' (null and arrays included)
TypeofObject(v) == v.t \in {"object", "array", "null"}

\* Object.keys(value): own enumerable keys.  A string's keys are its indices.
ObjectKeys(v) ==
    IF v.t \in {"object", "array"} THEN [i \in 1..Len(v.kv) |-> v.kv[i][1]]
    ELSE IF v.t = "string" THEN [i \in 1..Len(v.s) |-> decimal(i - 1)]
    ELSE <<>>

\* value[name], own properties only (inherited members such as "length" or
\* "constructor" are spelled with letters no key of this model's alphabet forms)
GetProp(v, name) ==
    IF v.t \in {"null", "undefined"} THEN TypeError
    ELSE IF \E i \in 1..Len(ObjectKeys(v)) : ObjectKeys(v)[i] = name
    THEN LET i == CHOOSE j \in 1..Len(ObjectKeys(v)) : ObjectKeys(v)[j] = name
         IN  IF v.t = "string" THEN JStr(<<v.s[i]>>) ELSE v.kv[i][2]
    ELSE JUndefined

\* JSON.stringify(value), as text
RECURSIVE stringify(_)
RECURSIVE stringifyPairs(_, _)
stringify(v) ==
    CASE v.t = "null" -> <<"n", "u", "l", "l">>
      [] v.t \in {"number", "boolean"} -> v.s
      [] v.t = "string" -> <<"\"">> \o v.s \o <<"\"">>
      [] v.t = "object" -> <<"{">> \o stringifyPairs(v.kv, TRUE) \o <<"}">>
      [] v.t = "array" -> <<"[">> \o stringifyPairs(v.kv, FALSE) \o <<"]">>

stringifyPairs(pairs, withKeys) ==
    IF Len(pairs) = 0 THEN <<>>
    ELSE (IF withKeys THEN <<"\"">> \o pairs[1][1] \o <<"\"", ":">> ELSE <<>>)
         \o stringify(pairs[1][2])
         \o (IF Len(pairs) > 1 THEN <<",">> ELSE <<>>)
         \o stringifyPairs(Tail(pairs), withKeys)

\* String(value) for the values the code coerces (parseFloat, isFinite, Date)
RECURSIVE toString(_)
toString(v) ==
    CASE v.t = "null" -> <<"n", "u", "l", "l">>
      [] v.t \in {"number", "boolean", "string"} -> v.s
      [] v.t = "object" ->
           <<"[", "o", "b", "j", "e", "c", "t", " ", "O", "b", "j", "e", "c", "t", "]">>
      [] v.t = "array" ->
           join([i \in 1..Len(v.kv) |->
                    IF v.kv[i][2].t = "null" THEN <<>> ELSE toString(v.kv[i][2])],
                ",")
      [] OTHER -> <<"u", "n", "d", "e", "f", "i", "n", "e", "d">>

\* ------------------------------------------------------------ semantic types

\* str without its leading white space
RECURSIVE trimLeft(_)
trimLeft(str) ==
    IF Len(str) > 0 /\ IsSpace(str[1]) THEN trimLeft(Tail(str)) ELSE str

\* str without its trailing white space
RECURSIVE trimRight(_)
trimRight(str) ==
    IF Len(str) > 0 /\ IsSpace(str[Len(str)])
    THEN trimRight(SubSeq(str, 1, Len(str) - 1)) ELSE str

\* digits with at most one '.', at least one digit
IsUnsignedDecimal(str) ==
    /\ \E i \in 1..Len(str) : IsDigit(str[i])
    /\ \A i \in 1..Len(str) : IsDigit(str[i]) \/ str[i] = "."
    /\ Cardinality({i \in 1..Len(str) : str[i] = "."}) <= 1

\* a decimal StringNumericLiteral (exponent and 0x forms need letters next to
\* digits, which no text of this model has)
IsDecimalLiteral(str) ==
    IF Len(str) > 0 /\ str[1] \in {"+", "-"}
    THEN IsUnsignedDecimal(Tail(str)) ELSE IsUnsignedDecimal(str)

\* !isNaN(parseFloat(value)): String(value) starts, after white space and an
\* optional sign, with a digit or with '.' and a digit
parseFloatIsNumber(v) ==
    LET str == trimLeft(toString(v))
        u == IF Len(str) > 0 /\ str[1] \in {"+", "-"} THEN Tail(str) ELSE str
    IN  /\ Len(u) > 0
        /\ \/ IsDigit(u[1])
           \/ u[1] = "." /\ Len(u) > 1 /\ IsDigit(u[2])

\* isFinite(value): Number(value) is a finite number
isFinite(v) ==
    CASE v.t \in {"number", "boolean", "null"} -> TRUE
      [] v.t \in {"string", "array"} ->
           LET str == trimRight(trimLeft(toString(v)))
           IN  Len(str) = 0 \/ IsDecimalLiteral(str)
      [] OTHER -> FALSE

\* [-a-zA-Z0-9@:%_\+.~#?&//=]
IsUrlChar(c) ==
    IsAlnum(c) \/ c \in {"-", "@", ":", "%", "_", "+", ".", "~", "#", "?", "&", "/", "="}

\* \w
IsWordChar(c) == IsAlnum(c) \/ c = "_"

\* value.match(/[-a-zA-Z0-9@:%_\+.~#?&//=]{2,256}\.[a-z]{2,4}\b(\/...)?/gi):
\* somewhere two class characters, a '.', two to four letters, a word boundary
matchesUrlPattern(str) ==
    \E i \in 3..Len(str) :
        /\ str[i] = "."
        /\ IsUrlChar(str[i - 1]) /\ IsUrlChar(str[i - 2])
        /\ \E n \in 2..4 :
              /\ i + n <= Len(str)
              /\ \A j \in (i + 1)..(i + n) : IsLetter(str[j])
              /\ (i + n = Len(str) \/ ~IsWordChar(str[i + n + 1]))

\* the not-a-number a Date of an unparseable text holds
NaN == [nan |-> TRUE, y |-> 0, mo |-> 0, d |-> 0, h |-> 0]

UtcFields(y, mo, d, h) == [nan |-> FALSE, y |-> y, mo |-> mo, d |-> d, h |-> h]

AllDigits(str) == \A i \in 1..Len(str) : IsDigit(str[i])

\* YYYY-MM-DD
IsIsoDate(str) ==
    /\ Len(str) = 10
    /\ AllDigits(SubSeq(str, 1, 4)) /\ str[5] = "-"
    /\ AllDigits(SubSeq(str, 6, 7)) /\ str[8] = "-"
    /\ AllDigits(SubSeq(str, 9, 10))
    /\ digitsValue(SubSeq(str, 6, 7)) \in 1..12
    /\ digitsValue(SubSeq(str, 9, 10)) \in 1..31

\* YYYY-MM-DDTHH:mm:ssZ
IsIsoDateTime(str) ==
    /\ Len(str) = 20
    /\ IsIsoDate(SubSeq(str, 1, 10)) /\ str[11] = "T"
    /\ AllDigits(SubSeq(str, 12, 13)) /\ str[14] = ":"
    /\ AllDigits(SubSeq(str, 15, 16)) /\ str[17] = ":"
    /\ AllDigits(SubSeq(str, 18, 19)) /\ str[20] = "Z"
    /\ digitsValue(SubSeq(str, 12, 13)) \in 0..23
    /\ digitsValue(SubSeq(str, 15, 16)) \in 0..59
    /\ digitsValue(SubSeq(str, 18, 19)) \in 0..59

\* The UTC fields of the Date a text parses to.  A text in neither ISO form
\* that holds a digit goes to the engine's own fallback parser and is left
\* undefined here; a text without any digit names no date.
parseDate(str) ==
    CASE IsIsoDateTime(str) ->
           UtcFields(digitsValue(SubSeq(str, 1, 4)), digitsValue(SubSeq(str, 6, 7)) - 1,
                     digitsValue(SubSeq(str, 9, 10)), digitsValue(SubSeq(str, 12, 13)))
      [] IsIsoDate(str) ->
           UtcFields(digitsValue(SubSeq(str, 1, 4)), digitsValue(SubSeq(str, 6, 7)) - 1,
                     digitsValue(SubSeq(str, 9, 10)), 0)
      [] \A i \in 1..Len(str) : ~IsDigit(str[i]) -> NaN

\* new Date(val): a number (a boolean, null) is milliseconds since the epoch,
\* anything else is parsed from its text.  Only the epoch's first hour is
\* computed from milliseconds.
newDate(v) ==
    CASE v.t = "number" /\ digitsValue(v.s) < 3600000 -> UtcFields(1970, 0, 1, 0)
      [] v.t \in {"boolean", "null"} -> UtcFields(1970, 0, 1, 0)
      [] v.t = "undefined" -> NaN
      [] v.t \in {"string", "object", "array"} -> parseDate(toString(v))

\* !isNaN(Date.parse(value)) for a string
dateParses(str) == ~parseDate(str).nan

TypeNUMBER == "NUMBER"
TypeBOOLEAN == "BOOLEAN"
TypeURL == "URL"
TypeYMDH == "YEAR_MONTH_DAY_HOUR"
TypeTEXT == "TEXT"

getSemanticType(value) ==
    IF parseFloatIsNumber(value) /\ isFinite(value) THEN TypeNUMBER
    ELSE IF value.t = "boolean" THEN TypeBOOLEAN
    ELSE IF ~TypeofObject(value) /\ value.t # "undefined" /\ matchesUrlPattern(value.s)
    THEN TypeURL
    ELSE IF ~TypeofObject(value) /\ value.t # "undefined" /\ dateParses(value.s)
    THEN TypeYMDH
    ELSE TypeTEXT

\* ------------------------------------------------------------ schema discovery

\* The key argument of createFields: null at the root, undefined when
\* getElementKey returned nothing, a string otherwise.
KeyNull == [k |-> "null", str |-> <<>>]
KeyUndefined == [k |-> "undefined", str |-> <<>>]
KeyOf(str) == [k |-> "string", str |-> str]

getElementKey(key, currentKey) ==
    IF currentKey = <<>> THEN KeyUndefined
    ELSE IF key.k = "string" THEN KeyOf(key.str \o <<".">> \o replaceFirstDot(currentKey))
    ELSE KeyOf(replaceFirstDot(currentKey))

\* What createField adds to the fields: a metric for a NUMBER, a dimension
\* otherwise, with the id, the name and the type it sets.
NewField(key, value) ==
    [id |-> normalizeKey(key), name |-> key, type |-> getSemanticType(value),
     concept |-> IF getSemanticType(value) = TypeNUMBER THEN "METRIC" ELSE "DIMENSION"]

\* createField: the fields it adds, or the TypeError of key.replace on a key
\* that is undefined
createField(key, value) ==
    IF key.k = "string"
    THEN [err |-> FALSE, fields |-> <<NewField(key.str, value)>>]
    ELSE [err |-> TRUE, fields |-> <<>>]

\* results of the forEach body, in key order; the first exception ends it
RECURSIVE concatResults(_)
concatResults(results) ==
    IF Len(results) = 0 THEN [err |-> FALSE, fields |-> <<>>]
    ELSE IF results[1].err THEN [err |-> TRUE, fields |-> <<>>]
    ELSE LET rest == concatResults(Tail(results))
         IN  IF rest.err THEN rest
             ELSE [err |-> FALSE, fields |-> results[1].fields \o rest.fields]

\* createFields with the inline branch typing a nested scalar by the object
\* that holds it
RECURSIVE createFieldsByParent(_, _, _)
createFieldsByParent(key, value, isInline) ==
    IF value.t = "object"
    THEN concatResults(
           [i \in 1..Len(value.kv) |->
              LET currentKey == value.kv[i][1]
                  elementKey == getElementKey(key, currentKey)
              IN  IF isInline /\ value.kv[i][2].t = "object"
                  THEN createFieldsByParent(elementKey, value.kv[i][2], isInline)
                  ELSE IF isInline /\ value.kv[i][2].t # "null"
                  THEN createField(elementKey, value)
                  ELSE createField(KeyOf(currentKey), value)])
    ELSE IF key.k # "null" THEN createField(key, value)
    ELSE [err |-> FALSE, fields |-> <<>>]

RECURSIVE createFields(_, _, _)
createFields(key, value, isInline) ==
    IF value.t = "object"
    THEN concatResults(
           [i \in 1..Len(value.kv) |->
              LET currentKey == value.kv[i][1]
                  elementKey == getElementKey(key, currentKey)
              IN  IF isInline /\ value.kv[i][2].t # "null"
                  THEN createFields(elementKey, value.kv[i][2], isInline)
                  ELSE createField(KeyOf(currentKey), value)])
    ELSE IF key.k # "null" THEN createField(key, value)
    ELSE [err |-> FALSE, fields |-> <<>>]

\* the rows of a content: Array.isArray(content) ? content : [content]
RowsOf(c) == IF c.t = "array" THEN [i \in 1..Len(c.kv) |-> c.kv[i][2]] ELSE <<c>>

\* getFields: the fields of the first row, or the user error it sends
getFields(c) ==
    IF Len(RowsOf(c)) = 0 \/ ~TypeofObject(RowsOf(c)[1]) \/ RowsOf(c)[1].t = "null"
    THEN [error |-> "InvalidSchemaError", fields |-> <<>>]
    ELSE LET r == createFields(KeyNull, RowsOf(c)[1], TRUE)
         IN  IF r.err THEN [error |-> "FieldIdentificationError", fields |-> <<>>]
             ELSE [error |-> "none", fields |-> r.fields]

\* ------------------------------------------------------------ resolution

\* the first key of the cursor that equals the segment once normalized
normalizedMatch(row, currentPath) ==
    LET keys == ObjectKeys(row)
        hits == {i \in 1..Len(keys) : normalizeKey(keys[i]) = currentPath}
    IN  IF hits = {} THEN row
        ELSE GetProp(row, keys[CHOOSE i \in hits : \A j \in hits : i <= j])

\* getColumnValue from segment index on; TypeError when the cursor is null
RECURSIVE walkPath(_, _, _)
walkPath(valuePaths, index, row) ==
    IF index > Len(valuePaths) THEN row
    ELSE LET currentPath == valuePaths[index]
             direct == GetProp(row, currentPath)
         IN  IF direct = TypeError THEN TypeError
             ELSE IF direct.t = "null" THEN EmptyString
             ELSE IF direct.t # "undefined" THEN walkPath(valuePaths, index + 1, direct)
             ELSE walkPath(valuePaths, index + 1, normalizedMatch(row, currentPath))

getColumnValue(valuePaths, row) == walkPath(valuePaths, 1, row)

\* ------------------------------------------------------------ projection

\* str.slice(-2)
sliceLast2(str) == IF Len(str) <= 2 THEN str ELSE SubSeq(str, Len(str) - 1, Len(str))

\* the text of a number that may be NaN
numberText(isNaN, n) == IF isNaN THEN <<"N", "a", "N">> ELSE decimal(n)

convertDate(val) ==
    LET date == newDate(val)
    IN  numberText(date.nan, date.y)
        \o sliceLast2(<<"0">> \o numberText(date.nan, date.mo + 1))
        \o sliceLast2(<<"0">> \o numberText(date.nan, date.d))
        \o sliceLast2(<<"0">> \o numberText(date.nan, date.h))

validateValue(field, val) ==
    LET v == IF field.type = TypeYMDH THEN JStr(convertDate(val)) ELSE val
    IN  IF v.t \in {"string", "number", "boolean"} THEN v
        ELSE IF TypeofObject(v) THEN JStr(stringify(v))
        ELSE EmptyString

\* the values of one row, field by field; err when a resolution throws
RECURSIVE rowValues(_, _, _)
rowValues(row, requestedFields, done) ==
    IF Len(requestedFields) = 0 THEN [err |-> FALSE, values |-> done]
    ELSE LET field == requestedFields[1]
             valuePaths == split(field.id, ".")
             fieldValue == IF row.t = "null" THEN EmptyString
                           ELSE getColumnValue(valuePaths, row)
         IN  IF fieldValue = TypeError THEN [err |-> TRUE, values |-> <<>>]
             ELSE rowValues(row, Tail(requestedFields),
                            Append(done, validateValue(field, fieldValue)))

\* mapRows leaving out the rows that are null
RECURSIVE mapRowsSkipNull(_, _, _)
mapRowsSkipNull(left, requestedFields, done) ==
    IF Len(left) = 0 THEN [err |-> FALSE, rows |-> done]
    ELSE IF left[1].t = "null" THEN mapRowsSkipNull(Tail(left), requestedFields, done)
    ELSE LET r == rowValues(left[1], requestedFields, <<>>)
         IN  IF r.err THEN [err |-> TRUE, rows |-> <<>>]
             ELSE mapRowsSkipNull(Tail(left), requestedFields, Append(done, r.values))

\* content.map(...) over the rows left, after the rows already mapped
RECURSIVE mapRows(_, _, _)
mapRows(left, requestedFields, done) ==
    IF Len(left) = 0 THEN [err |-> FALSE, rows |-> done]
    ELSE LET r == rowValues(left[1], requestedFields, <<>>)
         IN  IF r.err THEN [err |-> TRUE, rows |-> <<>>]
             ELSE mapRows(Tail(left), requestedFields, Append(done, r.values))

getColumns(c, requestedFields) == mapRows(RowsOf(c), requestedFields, <<>>)

\* fields.forIds(requestedFieldIds): the fields picked, in the order asked
forIds(fields, picked) == [i \in 1..Len(picked) |-> fields[picked[i]]]

\* ------------------------------------------------------------ the cache store

\* CacheService: a function from the keys present to [value, ttl in seconds]
EmptyStore == [k \in {} |-> [value |-> <<>>, ttl |-> 0]]

\* cache.get(key): the value, or null
cacheGet(st, key) == IF key \in DOMAIN st THEN JStr(st[key].value) ELSE JNull

\* cache.put(key, value, expirationInSeconds)
cachePut(st, key, value, ttl) ==
    [k \in DOMAIN st \cup {key} |->
        IF k = key THEN [value |-> value, ttl |-> ttl] ELSE st[k]]

\* cache.putAll(values), values in insertion order; the service's own
\* expiration, 600 seconds, applies
RECURSIVE cachePutAll(_, _)
cachePutAll(st, data) ==
    IF Len(data) = 0 THEN st
    ELSE cachePutAll(cachePut(st, data[1][1], data[1][2], 600), Tail(data))

\* an entry leaves the store when its time is up
cacheExpire(st, key) == [k \in DOMAIN st \ {key} |-> st[k]]

\* ------------------------------------------------------------ fetch and cache

\* the seconds getCachedData falls back to
DefaultExpirySeconds == 300

HasPrefix(str, pre) == Len(str) >= Len(pre) /\ SubSeq(str, 1, Len(pre)) = pre

\* url && url.match(/^https?:\/\/.+$/g): '.' matches no line terminator
isValidUrl(url) ==
    \E pre \in {<<"h", "t", "t", "p", ":", "/", "/">>,
                <<"h", "t", "t", "p", "s", ":", "/", "/">>} :
        /\ HasPrefix(url, pre)
        /\ Len(url) > Len(pre)
        /\ \A i \in (Len(pre) + 1)..Len(url) : url[i] \notin {"\n", "\r"}

\* the longest prefix of digits
RECURSIVE digitPrefix(_)
digitPrefix(str) ==
    IF Len(str) > 0 /\ IsDigit(str[1]) THEN <<str[1]>> \o digitPrefix(Tail(str)) ELSE <<>>

\* parseInt(value): white space, then digits; NaN without a digit (signs and
\* 0x prefixes are not among the inputs)
parseInt(v) ==
    LET str == IF v.t = "string" THEN digitPrefix(trimLeft(v.s)) ELSE <<>>
    IN  [nan |-> Len(str) = 0, n |-> digitsValue(str)]

\* isNaN(expiryTime) ? 300 : isFinite(expiryTime) ? expiryTime * 60 : 300
cacheExpiryTime(cache_expiry_time) ==
    IF parseInt(cache_expiry_time).nan THEN DefaultExpirySeconds
    ELSE parseInt(cache_expiry_time).n * 60

\* url.replace(/[^a-zA-Z0-9]+/g, '')
cacheKeyOf(url) == SelectSeq(url, IsAlnum)

IndexKey(cacheKey) == cacheKey \o <<".", "k", "e", "y", "s">>

EntryKey(cacheKey, key) == cacheKey \o <<".">> \o key

\* cacheKeyString !== null ? cacheKeyString.split(',') : []
cacheKeysOf(cacheKeyString) ==
    IF cacheKeyString.t = "null" THEN <<>> ELSE split(cacheKeyString.s, ",")

\* the condition of line 146
isCacheHit(cacheKeyString) ==
    cacheKeyString.t # "null" /\ Len(cacheKeysOf(cacheKeyString)) > 0

\* the exception JSON.parse throws on a text that is no JSON
SyntaxError == [t |-> "SyntaxError", s |-> <<>>, kv |-> <<>>]

\* the values a response body of this model can hold at its top level
JsonElements == {JNull, JNum(1), JNum(2)}

\* JSON.parse(text): the value whose JSON text it is.  Every text the store
\* holds is the JSON text of one of JsonElements or an index (a list of keys,
\* possibly empty), and an index is no JSON text.
parseJSON(text) ==
    IF \E v \in JsonElements : stringify(v) = text
    THEN CHOOSE v \in JsonElements : stringify(v) = text
    ELSE SyntaxError

\* the loop of lines 149-153 over the entries cache.getAll returned
RECURSIVE readEntries(_, _, _)
readEntries(cacheData, cacheKeys, done) ==
    IF Len(cacheKeys) = 0 THEN [thrown |-> "none", content |-> JArr(done)]
    ELSE IF cacheKeys[1] \in DOMAIN cacheData
    THEN LET v == parseJSON(cacheData[cacheKeys[1]].value)
         IN  IF v = SyntaxError THEN [thrown |-> "SyntaxError", content |-> JUndefined]
             ELSE readEntries(cacheData, Tail(cacheKeys), Append(done, v))
    ELSE readEntries(cacheData, Tail(cacheKeys), done)

\* the loop of lines 157-159: cacheData as (key, JSON text) pairs
entriesOf(cacheKey, c) ==
    [i \in 1..Len(ObjectKeys(c)) |->
        <<EntryKey(cacheKey, ObjectKeys(c)[i]), stringify(GetProp(c, ObjectKeys(c)[i]))>>]

\* Object.keys(cacheData), as cache.put turns it into a string
indexTextOf(data) == join([i \in 1..Len(data) |-> data[i][1]], ",")

\* fetchJSON(url): what it returns, or the user error it throws.  env is what
\* the world does: the transport fails, the body is no JSON, or the body is
\* env.body.
fetchJSON(url, env) ==
    IF env.transport = "fail" THEN [thrown |-> "TransportError", content |-> JUndefined]
    ELSE IF env.transport = "badjson"
    THEN [thrown |-> "InvalidJsonError", content |-> JUndefined]
    ELSE [thrown |-> "none", content |-> env.body]

\* getCachedData(url, cache_expiry_time) on store st
getCachedData(st, url, cache_expiry_time, env) ==
    LET cacheKey == cacheKeyOf(url)
        cacheKeyString == cacheGet(st, IndexKey(cacheKey))
    IN  IF isCacheHit(cacheKeyString)
        THEN LET r == readEntries(st, cacheKeysOf(cacheKeyString), <<>>)
             IN  [thrown |-> r.thrown, content |-> r.content, store |-> st,
                  fetched |-> FALSE, transport |-> "unused", writeFailed |-> FALSE,
                  indexBefore |-> cacheKeyString]
        ELSE LET f == fetchJSON(url, env)
                 data == entriesOf(cacheKey, f.content)
                 base == [thrown |-> f.thrown, content |-> f.content, store |-> st,
                          fetched |-> TRUE, transport |-> env.transport,
                          writeFailed |-> FALSE, indexBefore |-> cacheKeyString]
             IN  IF f.thrown # "none" THEN base
                 ELSE IF env.putAllFails
                 THEN [base EXCEPT !.thrown = "CacheWriteError", !.writeFailed = TRUE]
                 ELSE IF env.putFails
                 THEN [base EXCEPT !.thrown = "CacheWriteError", !.writeFailed = TRUE,
                                   !.store = cachePutAll(st, data)]
                 ELSE [base EXCEPT !.store =
                          cachePut(cachePutAll(st, data), IndexKey(cacheKey),
                                   indexTextOf(data), cacheExpiryTime(cache_expiry_time))]

\* !content
IsFalsy(v) ==
    \/ v.t \in {"null", "undefined"}
    \/ v.t = "boolean" /\ v.s = JBool(FALSE).s
    \/ v.t = "number" /\ digitsValue(v.s) = 0
    \/ v.t = "string" /\ v.s = <<>>

\* fetchData(configParams): the content, or the kind of the user error sent
fetchData(st, configParams, env) ==
    LET url == configParams.url
        none == [thrown |-> "none", content |-> JUndefined, store |-> st,
                 fetched |-> FALSE, transport |-> "unused", writeFailed |-> FALSE,
                 indexBefore |-> JUndefined]
    IN  IF ~isValidUrl(url) THEN [none EXCEPT !.thrown = "InvalidUrlError"]
        ELSE LET r == IF configParams.cache
                      THEN getCachedData(st, url, configParams.cache_expiry_time, env)
                      ELSE [none EXCEPT !.thrown = fetchJSON(url, env).thrown,
                                        !.content = fetchJSON(url, env).content,
                                        !.fetched = TRUE, !.transport = env.transport]
             IN  IF r.thrown # "none"
                 THEN [r EXCEPT !.thrown = "CacheCapacityError", !.content = JUndefined]
                 ELSE IF IsFalsy(r.content)
                 THEN [r EXCEPT !.thrown = "EmptyContentError", !.content = JUndefined]
                 ELSE r

\* ------------------------------------------------------------ inputs

kLower == <<"a">>
kUpper == <<"A">>
kDotted == <<"a", ".", "b">>
kSpaced == <<"A", " ", "b">>
kEmpty == <<>>

DataKeys == {kLower, kUpper, kDotted, kSpaced, kEmpty}

sAnn == JStr(<<"A", "n", "n">>)
sUrl == JStr(<<"h", "t", "t", "p", ":", "/", "/", "x", ".", "c", "o">>)
sDate ==
    JStr(<<"2", "0", "2", "0", "-", "0", "1", "-", "0", "2", "T",
           "0", "3", ":", "0", "0", ":", "0", "0", "Z">>)

Scalars == {JNull, JNum(30), JBool(TRUE), sAnn, sUrl, sDate, JArr(<<sAnn>>)}

\* the scalars of two-key objects
PairScalars == {JNull, JNum(30), sDate, sAnn}

\* nesting depth of the sample objects
MaxDepth == 2

\* rows of a content
MaxRows == 2

\* requested fields of one getData request
MaxRequested == 2

\* segments of a path handed to getColumnValue directly
MaxPath == 2

\* values nested at most d objects deep, one key per nested object
RECURSIVE Values(_)
Values(d) ==
    IF d = 0 THEN Scalars
    ELSE Scalars \cup {JObj(<<>>)}
         \cup {JObj(<< <<k, v>> >>) : k \in DataKeys, v \in Values(d - 1)}

\* the first row of a content: what the schema is discovered from
Samples ==
    {JObj(<<>>)}
    \cup {JObj(<< <<k, v>> >>) : k \in DataKeys, v \in Values(MaxDepth - 1)}
    \cup {JObj(<< <<k[1], v[1]>>, <<k[2], v[2]>> >>) :
            k \in {kk \in DataKeys \X DataKeys : kk[1] # kk[2]},
            v \in PairScalars \X PairScalars}

\* rows after the first: they need not have the first row's shape
OtherRows ==
    {JNull, JNum(30), JObj(<< <<kUpper, JNull>> >>),
     JObj(<< <<kLower, JObj(<< <<kLower, sDate>> >>)>> >>)}

\* sequences over S of length at most n
SeqsUpTo(S, n) == UNION {[1..m -> S] : m \in 0..n}

Contents ==
    Samples
    \cup {JArr(<<first>> \o rest) : first \in Samples, rest \in SeqsUpTo(OtherRows, MaxRows - 1)}
    \cup {JArr(<<>>), JArr(<<JNull>>), JArr(<<JNum(30)>>), JNum(30)}

\* sequences of distinct indices into a sequence of n fields
Picks(n) ==
    {p \in SeqsUpTo(1..n, MaxRequested) : \A i, j \in 1..Len(p) : i # j => p[i] # p[j]}

Segments == {<<"a">>, <<"b">>, <<"a", "_", "b">>}

Paths == SeqsUpTo(Segments, MaxPath) \ {<<>>}

urlDash == <<"h", "t", "t", "p", ":", "/", "/", "a", "-", "b">>
urlPlain == <<"h", "t", "t", "p", ":", "/", "/", "a", "b">>
urlOther == <<"h", "t", "t", "p", ":", "/", "/", "c">>
urlNoScheme == <<"f", "t", "p", ":", "/", "/", "c">>

Urls == {urlDash, urlPlain, urlOther, urlNoScheme}

\* cache_expiry_time: three minutes, or left empty
ExpiryInputs == {JStr(<<"3">>), JUndefined}

kKeys == <<"k", "e", "y", "s">>

\* response bodies: arrays and objects of none, one and two elements, and null
Bodies ==
    {JArr(<<>>), JArr(<<JNum(1)>>), JArr(<<JNull, JNum(2)>>),
     JObj(<<>>), JObj(<< <<kLower, JNum(1)>> >>), JObj(<< <<kKeys, JNum(2)>> >>),
     JNull}

\* what the world does to one request: see fetchJSON; putAllFails and putFails
\* say whether the store refuses the write (an entry over its size limit)
Envs ==
    {[transport |-> t, body |-> JUndefined, putAllFails |-> FALSE, putFails |-> FALSE] :
        t \in {"fail", "badjson"}}
    \cup {[transport |-> "ok", body |-> b, putAllFails |-> f[1], putFails |-> f[2]] :
            b \in Bodies, f \in {<<FALSE, FALSE>>, <<TRUE, FALSE>>, <<FALSE, TRUE>>}}

\* The requests: configParams and what the world does.  cache_expiry_time
\* and the store's refusals are read only on the caching path, and nothing
\* but the url is read when the url is not valid.
Requests ==
    {r \in [url : Urls, cache : BOOLEAN, cache_expiry_time : ExpiryInputs, env : Envs] :
        /\ ~r.cache => /\ r.cache_expiry_time = JUndefined
                       /\ ~r.env.putAllFails /\ ~r.env.putFails
        /\ ~isValidUrl(r.url) => ~r.cache /\ r.env.transport = "fail"}

\* fetchData requests in one run
MaxGets == 2

\* getCachedData calls in one interleaved run
MaxCalls == 3

Procs == {1, 2}

\* the url both interleaved calls ask for
SharedUrl == urlPlain

\* the top-level elements of a content
ElementsOf(c) == {c.kv[i][2] : i \in 1..Len(c.kv)}

\* ------------------------------------------------------------ requests on a content

NoSchema == [error |-> "none", fields |-> <<>>]
NoRows == [err |-> FALSE, rows |-> <<>>]
NoProbe == [path |-> <<>>, row |-> JNull, out |-> JUndefined]

NoResp ==
    [op |-> "none", url |-> <<>>, cache |-> FALSE, cold |-> FALSE,
     afterExpiry |-> FALSE, thrown |-> "none",
     content |-> JUndefined, fetched |-> FALSE, transport |-> "unused",
     writeFailed |-> FALSE, indexBefore |-> JUndefined]

NoLocals ==
    [cacheKeyString |-> JUndefined, expiry |-> JUndefined, hit |-> FALSE,
     content |-> JUndefined, thrown |-> "none"]

\* prev when the request before the last was no caching get on a cold store
NoFirst == [first |-> FALSE, url |-> <<>>, content |-> JUndefined]

\* no request made yet, the cache empty
InitCache ==
    /\ store = EmptyStore
    /\ resp = NoResp
    /\ prev = NoFirst
    /\ expired = FALSE
    /\ produced = [u \in Urls |-> {}]
    /\ gets = 0
    /\ pc = [p \in Procs |-> "idle"]
    /\ loc = [p \in Procs |-> NoLocals]
    /\ fetchedElems = {}
    /\ calls = 0

InitData ==
    /\ content \in Contents
    /\ schema = NoSchema
    /\ request = <<>>
    /\ rows = NoRows
    /\ probe = NoProbe
    /\ dpc = "start"
    /\ InitCache

\* getSchema(request), on the content fetchData returned
GetSchema ==
    /\ schema' = getFields(content)
    /\ request' = <<>>
    /\ rows' = NoRows
    /\ dpc' = "getSchema"
    /\ UNCHANGED <<content, probe, store, seqVars, concVars>>

\* getData(request), on the content fetchData returned; a user error of
\* getFields ends the request before any row is projected
GetData ==
    /\ schema' = getFields(content)
    /\ \E picked \in Picks(Len(schema'.fields)) :
          /\ request' = forIds(schema'.fields, picked)
          /\ rows' = IF schema'.error # "none" THEN NoRows
                     ELSE getColumns(content, request')
    /\ dpc' = "getData"
    /\ UNCHANGED <<content, probe, store, seqVars, concVars>>

\* getColumnValue(valuePaths, row) on a row of the content that is not null
GetColumnValue ==
    /\ \E path \in Paths, i \in 1..Len(RowsOf(content)) :
          /\ RowsOf(content)[i].t # "null"
          /\ probe' = [path |-> path, row |-> RowsOf(content)[i],
                       out |-> getColumnValue(path, RowsOf(content)[i])]
    /\ dpc' = "getColumnValue"
    /\ UNCHANGED <<content, schema, request, rows, store, seqVars, concVars>>

NextData == GetSchema \/ GetData

SpecData == InitData /\ [][NextData]_vars

NextResolve == GetColumnValue

SpecResolve == InitData /\ [][NextResolve]_vars

\* ------------------------------------------------------------ requests through the cache

\* no content under study: the data requests are those of SpecData
InitNoData ==
    /\ content = JUndefined
    /\ schema = NoSchema
    /\ request = <<>>
    /\ rows = NoRows
    /\ probe = NoProbe
    /\ dpc = "start"

Init == InitNoData /\ InitCache

\* fetchData(request.configParams), the first call of getSchema and of
\* getData, run as a whole on the shared user cache
FetchData ==
    /\ gets < MaxGets
    /\ \E r \in Requests :
          \E a \in {fetchData(store,
                             [url |-> r.url, cache |-> r.cache,
                              cache_expiry_time |-> r.cache_expiry_time],
                             r.env)} :
              /\ store' = a.store
              /\ resp' = [op |-> "fetchData", url |-> r.url, cache |-> r.cache,
                          cold |-> (store = EmptyStore), afterExpiry |-> expired,
                          thrown |-> a.thrown,
                          content |-> a.content, fetched |-> a.fetched,
                          transport |-> a.transport, writeFailed |-> a.writeFailed,
                          indexBefore |-> a.indexBefore]
              /\ produced' = IF a.fetched /\ a.transport = "ok"
                             THEN [produced EXCEPT ![r.url] = @ \cup {r.env.body}]
                             ELSE produced
    /\ prev' = IF resp.op = "fetchData" /\ resp.cache /\ resp.cold /\ resp.fetched
                  /\ resp.thrown = "none"
               THEN [first |-> TRUE, url |-> resp.url, content |-> resp.content]
               ELSE NoFirst
    /\ expired' = FALSE
    /\ gets' = gets + 1
    /\ UNCHANGED <<dataVars, concVars>>

\* the time of one entry of the store is up
Expire ==
    /\ \E key \in DOMAIN store : store' = cacheExpire(store, key)
    /\ expired' = TRUE
    /\ UNCHANGED <<dataVars, resp, prev, produced, gets, concVars>>

Next == FetchData \/ Expire

Spec == Init /\ [][Next]_vars

\* ------------------------------------------------------------ interleaved getCachedData calls

\* line 141: the call starts and reads the index
CacheGetIndex(p) ==
    /\ pc[p] = "idle"
    /\ calls < MaxCalls
    /\ \E expiry \in ExpiryInputs :
          LET cacheKeyString == cacheGet(store, IndexKey(cacheKeyOf(SharedUrl)))
          IN  /\ loc' = [loc EXCEPT ![p] =
                            [NoLocals EXCEPT !.cacheKeyString = cacheKeyString,
                                             !.expiry = expiry,
                                             !.hit = isCacheHit(cacheKeyString)]]
              /\ pc' = [pc EXCEPT ![p] =
                            IF isCacheHit(cacheKeyString) THEN "getAll" ELSE "fetch"]
    /\ calls' = calls + 1
    /\ UNCHANGED <<dataVars, store, seqVars, fetchedElems>>

\* lines 147-153: the bulk read, then the loop over what it returned
CacheGetAll(p) ==
    /\ pc[p] = "getAll"
    /\ LET r == readEntries(store, cacheKeysOf(loc[p].cacheKeyString), <<>>)
       IN  loc' = [loc EXCEPT ![p].content = r.content, ![p].thrown = r.thrown]
    /\ pc' = [pc EXCEPT ![p] = "done"]
    /\ UNCHANGED <<dataVars, store, seqVars, fetchedElems, calls>>

\* line 155: the content-producer
FetchJSON(p) ==
    /\ pc[p] = "fetch"
    /\ \E env \in Envs :
          LET f == fetchJSON(SharedUrl, env)
          IN  /\ loc' = [loc EXCEPT ![p].content = f.content, ![p].thrown = f.thrown]
              /\ pc' = [pc EXCEPT ![p] = IF f.thrown = "none" THEN "putAll" ELSE "done"]
              /\ fetchedElems' = IF f.thrown = "none"
                                 THEN fetchedElems \cup ElementsOf(f.content)
                                 ELSE fetchedElems
    /\ UNCHANGED <<dataVars, store, seqVars, calls>>

\* lines 157-161: the entries, written in one bulk put, which the store may refuse
CachePutAll(p) ==
    /\ pc[p] = "putAll"
    /\ \/ /\ store' = cachePutAll(store, entriesOf(cacheKeyOf(SharedUrl), loc[p].content))
          /\ pc' = [pc EXCEPT ![p] = "put"]
          /\ loc' = loc
       \/ /\ store' = store
          /\ pc' = [pc EXCEPT ![p] = "done"]
          /\ loc' = [loc EXCEPT ![p].thrown = "CacheWriteError"]
    /\ UNCHANGED <<dataVars, seqVars, fetchedElems, calls>>

\* line 162: the index, which the store may refuse
CachePut(p) ==
    /\ pc[p] = "put"
    /\ \/ /\ store' = cachePut(store, IndexKey(cacheKeyOf(SharedUrl)),
                              indexTextOf(entriesOf(cacheKeyOf(SharedUrl), loc[p].content)),
                              cacheExpiryTime(loc[p].expiry))
          /\ loc' = loc
       \/ /\ store' = store
          /\ loc' = [loc EXCEPT ![p].thrown = "CacheWriteError"]
    /\ pc' = [pc EXCEPT ![p] = "done"]
    /\ UNCHANGED <<dataVars, seqVars, fetchedElems, calls>>

\* line 164: the call returns (or has thrown) and the caller goes on
Return(p) ==
    /\ pc[p] = "done"
    /\ pc' = [pc EXCEPT ![p] = "idle"]
    /\ loc' = [loc EXCEPT ![p] = NoLocals]
    /\ UNCHANGED <<dataVars, store, seqVars, fetchedElems, calls>>

NextInterleaved ==
    \/ \E p \in Procs :
          \/ CacheGetIndex(p) \/ CacheGetAll(p) \/ FetchJSON(p)
          \/ CachePutAll(p) \/ CachePut(p) \/ Return(p)
    \/ Expire

SpecInterleaved == Init /\ [][NextInterleaved]_vars


\* ------------------------------------------------------------ properties of the data requests

\* the row the schema is discovered from
SampleRow == IF content.t = "array" THEN content.kv[1][2] ELSE content

\* the key paths of the leaves of an object, depth first in key order: a leaf
\* is any value that is not an object (null, a scalar, an array)
RECURSIVE LeafPaths(_)
RECURSIVE LeafPathsFrom(_, _)
LeafPaths(v) == LeafPathsFrom(v, 1)

LeafPathsFrom(v, i) ==
    IF i > Len(v.kv) THEN <<>>
    ELSE (IF v.kv[i][2].t = "object"
          THEN LET sub == LeafPaths(v.kv[i][2])
               IN  [n \in 1..Len(sub) |-> <<v.kv[i][1]>> \o sub[n]]
          ELSE << <<v.kv[i][1]>> >>)
         \o LeafPathsFrom(v, i + 1)

\* the value at a key path, keys taken literally
RECURSIVE ValueAt(_, _)
ValueAt(v, path) ==
    IF Len(path) = 0 THEN v
    ELSE ValueAt(v.kv[CHOOSE i \in 1..Len(v.kv) : v.kv[i][1] = path[1]][2], Tail(path))

SchemaDone == dpc = "getSchema" /\ schema.error = "none"

ProjectionDone == dpc = "getData" /\ schema.error = "none" /\ ~rows.err

\* row i of the content, a content that is no array being its own single row
ContentRow(i) == IF content.t = "array" THEN content.kv[i][2] ELSE content

\* C3: whenever getColumns completes it yields one row per row of the content,
\* in order (one row for a content that is no array), and each row holds one
\* value per requested field, in request order.
C3_OneRowPerRowOneValuePerField ==
    ProjectionDone =>
        /\ Len(rows.rows) = (IF content.t = "array" THEN Len(content.kv) ELSE 1)
        /\ \A i \in 1..Len(rows.rows) :
              /\ Len(rows.rows[i]) = Len(request)
              /\ \A j \in 1..Len(request) :
                    rows.rows[i][j] =
                        validateValue(request[j],
                                      IF ContentRow(i).t = "null" THEN EmptyString
                                      ELSE getColumnValue(split(request[j].id, "."),
                                                          ContentRow(i)))

\* a content of two rows, the second null, projected on two fields
C3_Witness ==
    /\ ProjectionDone
    /\ content.t = "array" /\ Len(content.kv) = 2 /\ content.kv[2][2].t = "null"
    /\ Len(request) = 2 /\ request[1].id # request[2].id
    /\ Len(rows.rows) = 2

\* C4 as stated: every field discovered through a nested object is typed
\* TEXT, by classifying the object that holds it.
C4_NestedFieldsAreText ==
    SchemaDone =>
        \A i \in 1..Len(schema.fields) :
            Len(LeafPaths(SampleRow)[i]) >= 2 => schema.fields[i].type = TypeTEXT

\* C4 as the code has it: a discovery that completes emits one field per
\* leaf, in order; a field of a leaf that is not null is typed by classifying
\* the leaf itself, at any depth, and a field of a null leaf is typed by
\* classifying the object that holds it, which is TEXT.
C4_TypedByOwnValueUnlessNull ==
    SchemaDone =>
        /\ Len(schema.fields) = Len(LeafPaths(SampleRow))
        /\ \A i \in 1..Len(schema.fields) :
              LET path == LeafPaths(SampleRow)[i]
                  leaf == ValueAt(SampleRow, path)
                  holder == ValueAt(SampleRow, SubSeq(path, 1, Len(path) - 1))
              IN  IF leaf.t # "null"
                  THEN schema.fields[i].type = getSemanticType(leaf)
                  ELSE /\ schema.fields[i].type = getSemanticType(holder)
                       /\ schema.fields[i].type = TypeTEXT

\* a nested number and a nested date typed NUMBER and YEAR_MONTH_DAY_HOUR
C4_Witness ==
    /\ SchemaDone
    /\ \E i \in 1..Len(schema.fields) :
          /\ Len(LeafPaths(SampleRow)[i]) >= 2
          /\ ValueAt(SampleRow, LeafPaths(SampleRow)[i]) = JNum(30)
          /\ schema.fields[i].type = TypeNUMBER

\* C5: a null row yields the empty string for every requested field,
\* whatever the field's type.
C5_NullRowYieldsEmptyStrings ==
    ProjectionDone =>
        \A i \in 1..Len(rows.rows) :
            ContentRow(i).t = "null" =>
                \A j \in 1..Len(rows.rows[i]) : rows.rows[i][j] = EmptyString

\* C8: getColumnValue never fails on a row that is not null.
C8_ResolveNeverFails ==
    dpc = "getColumnValue" => probe.out # TypeError

\* C9: resolving the id of a discovered field against the sample it was
\* discovered from returns the leaf it was discovered from, the empty string
\* for a null leaf.
C9_DiscoverResolveRoundTrip ==
    SchemaDone =>
        \A i \in 1..Len(schema.fields) :
            LET leaf == ValueAt(SampleRow, LeafPaths(SampleRow)[i])
            IN  getColumnValue(split(schema.fields[i].id, "."), SampleRow)
                    = (IF leaf.t = "null" THEN EmptyString ELSE leaf)

\* ------------------------------------------------------------ properties of the cache

\* C1: after a caching get on a cold store, a second caching get of the same
\* url, no entry having expired, does not invoke the producer and returns a
\* value equal to the one the first get returned.
C1_SecondGetReturnsFirstValue ==
    (/\ resp.op = "fetchData" /\ resp.cache
     /\ prev.first /\ prev.url = resp.url /\ prev.content.t \in {"array", "object"}
     /\ ~resp.afterExpiry)
    => (/\ ~resp.fetched
        /\ resp.thrown = "none"
        /\ resp.content = prev.content)

\* C2: a request ends in the 'could not be cached' error only if caching was
\* on and a write to the store failed; a failed fetch ends in the transport
\* error and a body that is no JSON in the invalid-JSON error.
C2_ErrorKindIsItsCause ==
    resp.op = "fetchData" =>
        /\ resp.thrown = "CacheCapacityError" => (resp.cache /\ resp.writeFailed)
        /\ resp.transport = "fail" => resp.thrown = "TransportError"
        /\ resp.transport = "badjson" => resp.thrown = "InvalidJsonError"

\* C7: a get that finds the index absent or empty invokes the producer.
C7_AbsentOrEmptyIndexIsMiss ==
    (/\ resp.op = "fetchData" /\ resp.cache /\ isValidUrl(resp.url)
     /\ (resp.indexBefore.t = "null" \/ resp.indexBefore = EmptyString))
    => resp.fetched

\* C10: a get that answers from the cache answers with elements the producer
\* returned for its own url, which it has therefore been asked for before.
C10_NoAnswerFromAnotherUrl ==
    (resp.op = "fetchData" /\ resp.cache /\ resp.thrown = "none" /\ ~resp.fetched)
    => (/\ produced[resp.url] # {}
        /\ \A e \in ElementsOf(resp.content) :
              \E b \in produced[resp.url] : e \in ElementsOf(b))

\* C6: an interleaved call that found an index does not fail, returns at most
\* one element per listed key, and returns only elements the producer returned.
C6_StaleNotCorrupt ==
    \A p \in Procs :
        (pc[p] = "done" /\ loc[p].hit) =>
            /\ loc[p].thrown = "none"
            /\ loc[p].content.t = "array"
            /\ Len(loc[p].content.kv) <= Len(cacheKeysOf(loc[p].cacheKeyString))
            /\ ElementsOf(loc[p].content) \subseteq fetchedElems

====
